---- MODULE Spec2Model ----
(***************************************************************************)
(* vwarmup: a poll loop refreshes the vehicle service (WeConnect); every   *)
(* value-changed notification of the attribute "climatisationState" is     *)
(* classified by event_handler, which spawns a fire-and-forget asyncio     *)
(* task toggle_smart_charging(args, mode).  Each task opens its own Easee  *)
(* session, resolves the first site/circuit/charger, reads the charger     *)
(* state, decides and possibly writes the smart-charging flag, and closes  *)
(* the session.                                                            *)
(*                                                                         *)
(* Steps are cut at the await points of the coroutines.  connection.login  *)
(* and connection.update are synchronous calls: while the listener is      *)
(* inside update() the event loop is blocked and no task advances.         *)
(***************************************************************************)
EXTENDS Naturals, Sequences, FiniteSets

VARIABLES
    pc,         \* position of weconnect_listener
    failure,    \* the call whose exception ended the process, or "none"
    observers,  \* number of observers registered on the connection
    event,      \* the calls of observers update() still has to make for
                \* the change it found: << >>, or <<e>> with one observer
    tasks,      \* the reconciliation tasks, in dispatch order
    charger,    \* the remote charger's state, held by the Easee service
    external,   \* history: the charger was changed by somebody else
    nReceived,  \* history: notifications handed to event_handler
    nMapped,    \* history: climatization notifications with a mapped value
    nNoMode     \* history: climatization notifications with no mode

vars == <<pc, failure, observers, event, tasks, charger, external, nReceived, nMapped, nNoMode>>

\* The history counters, which only event_handler's invocation advances.
counters == <<nReceived, nMapped, nNoMode>>

\* ---------------------------------------------------------------- bounds
MaxNotifications == 2    \* notifications delivered in one behaviour

\* ---------------------------------------------------------------- values
\* ClimatizationStatus.ClimatizationState of the vehicle library.
ClimatizationState == {"OFF", "HEATING", "COOLING", "VENTILATION", "INVALID", "UNKNOWN"}

\* A value of the attribute that is no member of the enumeration (e.g. None).
OtherValue == "NONE"

\* chargerOpMode: "AWAITING_START" and one other operation mode.
OpModes == {"AWAITING_START", "CHARGING"}

ChargerStates == [smartCharging : BOOLEAN, chargerOpMode : OpModes]

\* The arguments event_handler is called with: the element's local
\* address and value, and whether the flags include VALUE_CHANGED (the
\* handler tests the flags itself, so both cases are drawn).
Events ==
    [address : {"climatisationState", "remainingClimatisationTime_min"},
     valueChanged : BOOLEAN,
     value : ClimatizationState \cup {OtherValue}]

\* The climatization states the specification maps to a mode.
MappedStates == {"OFF", "HEATING", "COOLING", "VENTILATION"}

\* A value-changed notification of the climatization attribute.
IsClimatization(e) ==
    e.address = "climatisationState" /\ e.valueChanged

\* class Mode(Enum): OFF = 0, ON = 1.
Mode == {"OFF", "ON"}

\* ------------------------------------------------------- event_handler
\* classify with VENTILATION left out of the list of running states.
classify_VentilationUnmapped(value) ==
    IF value = "OFF" THEN "OFF"
    ELSE IF value \in {"COOLING", "HEATING"} THEN "ON"
    ELSE "NONE"

\* classify with "on" as the default case, as in the example's handler.
classify_DefaultOn(value) ==
    IF value = "OFF" THEN "OFF"
    ELSE IF value \in {"INVALID", "UNKNOWN"} THEN "NONE"
    ELSE "ON"

\* The match statement of event_handler: the Mode handed to the spawned
\* task, or "NONE" when no task is created.
classify(value) ==
    IF value = "OFF" THEN "OFF"
    ELSE IF value \in {"COOLING", "HEATING", "VENTILATION"} THEN "ON"
    ELSE IF value \in {"INVALID", "UNKNOWN"} THEN "NONE"
    ELSE "NONE"

\* What the example's handler prints for a value (vwarmup.py).
example_event_handler(value) ==
    IF value = "OFF" THEN "Climatization is off."
    ELSE IF value = "INVALID" THEN "Invalid climatization state."
    ELSE IF value = "UNKNOWN" THEN "Unknown climatization state."
    ELSE "Climatization is on."

\* accepts without the test of the local address.
accepts_AnyAddress(e) ==
    e.valueChanged

\* The guard of event_handler on the flags and the local address.
accepts(e) ==
    e.valueChanged /\ e.address = "climatisationState"

\* NewTask with the coroutine run by the handler up to its first await.
NewTask_Started(mode) ==
    [mode |-> mode, pc |-> "get_sites", session |-> "open", state |-> << >>,
     decision |-> "NONE", writes |-> << >>, calls |-> 1, error |-> "none",
     seq |-> FALSE]

\* asyncio.create_task(toggle_smart_charging(args, mode)): a task that has
\* not run yet.
NewTask(mode) ==
    [mode |-> mode, pc |-> "created", session |-> "none", state |-> << >>,
     decision |-> "NONE", writes |-> << >>, calls |-> 0, error |-> "none",
     seq |-> FALSE]

\* ------------------------------------------------ toggle_smart_charging
\* Decide without the chargerOpMode test of the first branch.
Decide_IgnoresOpMode(state, mode) ==
    IF state.smartCharging /\ mode = "ON"
        THEN "DISABLE_SMART_CHARGING"
    ELSE IF state.smartCharging = FALSE /\ mode = "OFF"
        THEN "ENABLE_SMART_CHARGING"
    ELSE "NO_OP"

\* Decide without the smartCharging test of the first branch.
Decide_IgnoresFlag(state, mode) ==
    IF mode = "ON" /\ state.chargerOpMode = "AWAITING_START"
        THEN "DISABLE_SMART_CHARGING"
    ELSE IF state.smartCharging = FALSE /\ mode = "OFF"
        THEN "ENABLE_SMART_CHARGING"
    ELSE "NO_OP"

\* Decide without the smartCharging test of the elif branch.
Decide_ElifIgnoresFlag(state, mode) ==
    IF state.smartCharging /\ mode = "ON" /\ state.chargerOpMode = "AWAITING_START"
        THEN "DISABLE_SMART_CHARGING"
    ELSE IF mode = "OFF"
        THEN "ENABLE_SMART_CHARGING"
    ELSE "NO_OP"

\* The if / elif / else of toggle_smart_charging.
Decide(state, mode) ==
    IF state.smartCharging /\ mode = "ON" /\ state.chargerOpMode = "AWAITING_START"
        THEN "DISABLE_SMART_CHARGING"
    ELSE IF state.smartCharging = FALSE /\ mode = "OFF"
        THEN "ENABLE_SMART_CHARGING"
    ELSE "NO_OP"

\* WriteValue with the two literals exchanged.
WriteValue_Swapped(decision) ==
    IF decision = "DISABLE_SMART_CHARGING" THEN TRUE ELSE FALSE

\* The argument of the_charger.smart_charging(...) in each branch.
WriteValue(decision) ==
    IF decision = "DISABLE_SMART_CHARGING" THEN FALSE ELSE TRUE

\* AfterDecision with the elif branch only logging.
AfterDecision_ElifSkipsWrite(decision) ==
    IF decision = "DISABLE_SMART_CHARGING" THEN "smart_charging" ELSE "close"

\* AfterDecision with the write made after the else branch as well.
AfterDecision_AlwaysWrites(decision) ==
    "smart_charging"

\* The await that follows the branch: smart_charging(...) in the if and
\* the elif branch, easee.close() after the else branch.
AfterDecision(decision) ==
    IF decision = "NO_OP" THEN "close" ELSE "smart_charging"

\* The coroutine has returned or raised.
Finished(t) == t.pc \in {"done", "failed"}

\* asyncio.run() cancels every task still pending when main() raises: the
\* task ends at its current await, and easee.close() is not reached.
Cancel(t) ==
    IF Finished(t) THEN t ELSE [t EXCEPT !.pc = "cancelled"]

\* ------------------------------------------------------------- Init
Init ==
    /\ pc = "login"
    /\ failure = "none"
    /\ observers = 0
    /\ event = << >>
    /\ tasks = << >>
    /\ charger \in ChargerStates
    /\ external = FALSE
    /\ nReceived = 0
    /\ nMapped = 0
    /\ nNoMode = 0

\* ------------------------------------------------- weconnect_listener
\* connection.login() returns.
Login ==
    /\ pc = "login"
    /\ pc' = "addObserver"
    /\ UNCHANGED <<failure, observers, event, tasks, charger, external, counters>>

\* connection.login() raises: nothing catches it, asyncio.run(main()) ends.
LoginFails ==
    /\ pc = "login"
    /\ pc' = "terminated"
    /\ failure' = "login"
    /\ UNCHANGED <<observers, event, tasks, charger, external, counters>>

\* AddObserver with the handler registered a second time.
AddObserver_Twice ==
    /\ pc = "addObserver"
    /\ observers' = observers + 2
    /\ pc' = "update"
    /\ UNCHANGED <<failure, event, tasks, charger, external, counters>>

\* connection.addObserver(event_handler, VALUE_CHANGED), then the first
\* connection.update() is entered.
AddObserver ==
    /\ pc = "addObserver"
    /\ observers' = observers + 1
    /\ pc' = "update"
    /\ UNCHANGED <<failure, event, tasks, charger, external, counters>>

\* Inside connection.update(): the library finds a change and calls every
\* registered observer with it, once for each registration.
Notify ==
    /\ pc = "update"
    /\ observers > 0
    /\ event = << >>
    /\ nReceived < MaxNotifications
    /\ \E e \in Events : event' = [k \in 1..observers |-> e]
    /\ UNCHANGED <<pc, failure, observers, tasks, charger, external, counters>>

\* event_handler(element, flags), run synchronously inside update().
EventHandler ==
    /\ pc = "update"
    /\ event # << >>
    /\ LET e == event[1]
           mode == classify(e.value)
       IN  /\ tasks' = IF accepts(e) /\ mode # "NONE"
                       THEN Append(tasks, NewTask(mode))
                       ELSE tasks
           /\ nReceived' = nReceived + 1
           /\ nMapped' = IF IsClimatization(e) /\ e.value \in MappedStates
                         THEN nMapped + 1 ELSE nMapped
           /\ nNoMode' = IF IsClimatization(e) /\ e.value \notin MappedStates
                         THEN nNoMode + 1 ELSE nNoMode
    /\ event' = Tail(event)
    /\ UNCHANGED <<pc, failure, observers, charger, external>>

\* connection.update() returns; the listener awaits asyncio.sleep(300).
UpdateReturns ==
    /\ pc = "update"
    /\ event = << >>
    /\ pc' = "sleep"
    /\ UNCHANGED <<failure, observers, event, tasks, charger, external, counters>>

\* connection.update() raises: nothing catches it, the process ends and
\* every task still in flight is cancelled with it.
UpdateFails ==
    /\ pc = "update"
    /\ event = << >>
    /\ pc' = "terminated"
    /\ failure' = "update"
    /\ tasks' = [i \in 1..Len(tasks) |-> Cancel(tasks[i])]
    /\ UNCHANGED <<observers, event, charger, external, counters>>

\* SleepReturns with the loop body run once: the listener returns.
SleepReturns_LoopEnds ==
    /\ pc = "sleep"
    /\ pc' = "terminated"
    /\ UNCHANGED <<failure, observers, event, tasks, charger, external, counters>>

\* asyncio.sleep(300) is over: the next connection.update() is entered.
SleepReturns ==
    /\ pc = "sleep"
    /\ pc' = "update"
    /\ UNCHANGED <<failure, observers, event, tasks, charger, external, counters>>

\* ------------------------------------------------ toggle_smart_charging
\* A task advances only while the listener is suspended in asyncio.sleep.
Runnable(i) ==
    /\ pc = "sleep"
    /\ i \in 1..Len(tasks)

\* Raise with the coroutine run again from its start after an exception.
Raise_RetryFromStart(t, where) ==
    [t EXCEPT !.pc = "created", !.error = where]

\* An exception leaves the coroutine: it is stored in the task, which
\* nobody awaits; await easee.close() is not reached.
Raise(t, where) ==
    [t EXCEPT !.pc = "failed", !.error = where]

\* The task starts: Easee(username, password) creates the session, and
\* easee.get_sites() is awaited.
TaskStart(i) ==
    /\ Runnable(i)
    /\ tasks[i].pc = "created"
    /\ tasks' = [tasks EXCEPT ![i] = [@ EXCEPT !.pc = "get_sites",
                                                !.session = "open",
                                                !.calls = @ + 1]]
    /\ UNCHANGED <<pc, failure, observers, event, charger, external, counters>>

\* get_sites() returns; sites[0], circuits[0] and chargers[0] exist, and
\* the_charger.get_state() is awaited.
GetSitesReturns(i) ==
    /\ Runnable(i)
    /\ tasks[i].pc = "get_sites"
    /\ tasks' = [tasks EXCEPT ![i] = [@ EXCEPT !.pc = "get_state", !.calls = @ + 1]]
    /\ UNCHANGED <<pc, failure, observers, event, charger, external, counters>>

\* get_sites() raises (authentication, network), or one of sites[0],
\* circuits[0], chargers[0] raises IndexError.
GetSitesFails(i) ==
    /\ Runnable(i)
    /\ tasks[i].pc = "get_sites"
    /\ \E where \in {"get_sites", "IndexError"} :
          tasks' = [tasks EXCEPT ![i] = Raise(@, where)]
    /\ UNCHANGED <<pc, failure, observers, event, charger, external, counters>>

\* ReadState with the previous task's snapshot reused when there is one.
ReadState_Cached(i) ==
    IF i > 1 /\ tasks[i - 1].state # << >> THEN tasks[i - 1].state[1] ELSE charger

\* state = await the_charger.get_state(): the state the service holds at
\* the moment of the call.
ReadState(i) ==
    charger

\* get_state() returns the charger's current state; the branch is chosen,
\* and either smart_charging(...) or easee.close() is awaited.
GetStateReturns(i) ==
    /\ Runnable(i)
    /\ tasks[i].pc = "get_state"
    /\ LET state == ReadState(i)
           decision == Decide(state, tasks[i].mode)
       IN  tasks' = [tasks EXCEPT ![i] =
                [@ EXCEPT !.state = <<state>>,
                          !.decision = decision,
                          !.seq = \A j \in 1..(i - 1) : Finished(tasks[j]),
                          !.pc = AfterDecision(decision),
                          !.calls = @ + 1]]
    /\ UNCHANGED <<pc, failure, observers, event, charger, external, counters>>

\* GetStateFails with the exception reaching asyncio.run(main()).
GetStateFails_Propagates(i) ==
    /\ pc = "sleep"
    /\ i \in 1..Len(tasks)
    /\ tasks[i].pc = "get_state"
    /\ tasks' = [j \in 1..Len(tasks) |->
                    IF j = i THEN [tasks[j] EXCEPT !.pc = "failed", !.error = "get_state"]
                    ELSE Cancel(tasks[j])]
    /\ pc' = "terminated"
    /\ failure' = "toggle_smart_charging"
    /\ UNCHANGED <<observers, event, charger, external, counters>>

\* get_state() raises.
GetStateFails(i) ==
    /\ Runnable(i)
    /\ tasks[i].pc = "get_state"
    /\ tasks' = [tasks EXCEPT ![i] = Raise(@, "get_state")]
    /\ UNCHANGED <<pc, failure, observers, event, charger, external, counters>>

\* SmartChargingReturns with the whole charger state sent back, as it was
\* read, instead of the flag alone.
SmartChargingReturns_ReplacesState(i) ==
    /\ pc = "sleep"
    /\ i \in 1..Len(tasks)
    /\ tasks[i].pc = "smart_charging"
    /\ LET value == WriteValue(tasks[i].decision)
       IN  /\ charger' = [tasks[i].state[1] EXCEPT !.smartCharging = value]
           /\ tasks' = [tasks EXCEPT ![i] =
                    [@ EXCEPT !.writes = Append(@, value),
                              !.pc = "close",
                              !.calls = @ + 1]]
    /\ UNCHANGED <<pc, failure, observers, event, external, counters>>

\* the_charger.smart_charging(value) takes effect and returns;
\* easee.close() is awaited.
SmartChargingReturns(i) ==
    /\ Runnable(i)
    /\ tasks[i].pc = "smart_charging"
    /\ LET value == WriteValue(tasks[i].decision)
       IN  /\ charger' = [charger EXCEPT !.smartCharging = value]
           /\ tasks' = [tasks EXCEPT ![i] =
                    [@ EXCEPT !.writes = Append(@, value),
                              !.pc = "close",
                              !.calls = @ + 1]]
    /\ UNCHANGED <<pc, failure, observers, event, external, counters>>

\* the_charger.smart_charging(value) raises; the flag is not changed.
SmartChargingFails(i) ==
    /\ Runnable(i)
    /\ tasks[i].pc = "smart_charging"
    /\ tasks' = [tasks EXCEPT ![i] = Raise(@, "smart_charging")]
    /\ UNCHANGED <<pc, failure, observers, event, charger, external, counters>>

\* easee.close() returns and the coroutine ends.
CloseReturns(i) ==
    /\ Runnable(i)
    /\ tasks[i].pc = "close"
    /\ tasks' = [tasks EXCEPT ![i] = [@ EXCEPT !.pc = "done", !.session = "closed"]]
    /\ UNCHANGED <<pc, failure, observers, event, charger, external, counters>>

\* ------------------------------------------------------ charger service
\* The charger's state is held by the service that get_state() reads: the
\* operation mode or the flag changes without this program (charging
\* starts, the owner uses the app).
ExternalChange ==
    /\ pc = "sleep"
    /\ \E c \in ChargerStates \ {charger} : charger' = c
    /\ external' = TRUE
    /\ UNCHANGED <<pc, failure, observers, event, tasks, counters>>

\* ------------------------------------------------------------------ Next
Next ==
    \/ Login
    \/ LoginFails
    \/ AddObserver
    \/ Notify
    \/ EventHandler
    \/ UpdateReturns
    \/ UpdateFails
    \/ SleepReturns
    \/ \E i \in 1..MaxNotifications : TaskStart(i)
    \/ \E i \in 1..MaxNotifications : GetSitesReturns(i)
    \/ \E i \in 1..MaxNotifications : GetSitesFails(i)
    \/ \E i \in 1..MaxNotifications : GetStateReturns(i)
    \/ \E i \in 1..MaxNotifications : GetStateFails(i)
    \/ \E i \in 1..MaxNotifications : SmartChargingReturns(i)
    \/ \E i \in 1..MaxNotifications : SmartChargingFails(i)
    \/ \E i \in 1..MaxNotifications : CloseReturns(i)
    \/ ExternalChange

Spec == Init /\ [][Next]_vars

\* Normal operation: no call of the vehicle service or the charger service
\* fails.
NormalNext ==
    \/ Login
    \/ AddObserver
    \/ Notify
    \/ EventHandler
    \/ UpdateReturns
    \/ SleepReturns
    \/ \E i \in 1..MaxNotifications : TaskStart(i)
    \/ \E i \in 1..MaxNotifications : GetSitesReturns(i)
    \/ \E i \in 1..MaxNotifications : GetStateReturns(i)
    \/ \E i \in 1..MaxNotifications : SmartChargingReturns(i)
    \/ \E i \in 1..MaxNotifications : CloseReturns(i)
    \/ ExternalChange

\* The listener is the one coroutine main() awaits: its synchronous calls
\* (login, addObserver, update with the handler calls inside it) return,
\* and the event loop resumes it when its sleep timer expires.  Nothing
\* is assumed of the tasks or of the charger service.
LiveSpec ==
    /\ Init
    /\ [][NormalNext]_vars
    /\ WF_vars(Login)
    /\ WF_vars(AddObserver)
    /\ WF_vars(EventHandler)
    /\ WF_vars(UpdateReturns)
    /\ WF_vars(SleepReturns)

\* ============================================================== claims
Tasks == 1..Len(tasks)

\* The tasks that have read the charger's state.
HasRead(i) == tasks[i].state # << >>

\* C1: the decision of a reconciliation is a function of (smartCharging,
\* mode, chargerOpMode): DISABLE_SMART_CHARGING exactly for (true, RUNNING,
\* "AWAITING_START"), ENABLE_SMART_CHARGING exactly for (false, IDLE, any),
\* NO_OP for every other combination.
C1_DecisionTable ==
    \A i \in Tasks :
        HasRead(i) =>
            LET st == tasks[i].state[1]
                m == tasks[i].mode
                d == tasks[i].decision
                disable == st.smartCharging /\ m = "ON" /\ st.chargerOpMode = "AWAITING_START"
                enable == ~st.smartCharging /\ m = "OFF"
            IN  /\ d \in {"DISABLE_SMART_CHARGING", "ENABLE_SMART_CHARGING", "NO_OP"}
                /\ (d = "DISABLE_SMART_CHARGING") <=> disable
                /\ (d = "ENABLE_SMART_CHARGING") <=> enable
                /\ (d = "NO_OP") <=> (~disable /\ ~enable)

\* Two tasks have decided: one on (true, RUNNING, "CHARGING"), where only
\* the operation mode keeps it from disabling, and one that enables.
C1_Witness ==
    /\ Len(tasks) = 2
    /\ HasRead(1) /\ HasRead(2)
    /\ tasks[1].mode = "ON"
    /\ tasks[1].state[1] = [smartCharging |-> TRUE, chargerOpMode |-> "CHARGING"]
    /\ tasks[1].decision = "NO_OP"
    /\ tasks[2].decision = "ENABLE_SMART_CHARGING"

\* event_handler runs in this step.
HandlerStep == event # << >> /\ event' = Tail(event)

\* C2: a climatization notification with value HEATING, COOLING or
\* VENTILATION is classified ON (one task with Mode.ON is created), one with
\* value OFF is classified OFF (one task with Mode.OFF), one with INVALID or
\* UNKNOWN has no mode (no task); the example's handler makes the same
\* split of the six values.
C2_Classification ==
    [][(HandlerStep /\ IsClimatization(event[1]) /\ event[1].value \in ClimatizationState) =>
        LET v == event[1].value
        IN  /\ v \in {"HEATING", "COOLING", "VENTILATION"} =>
                    /\ tasks' = Append(tasks, NewTask("ON"))
                    /\ example_event_handler(v) = "Climatization is on."
            /\ v = "OFF" =>
                    /\ tasks' = Append(tasks, NewTask("OFF"))
                    /\ example_event_handler(v) = "Climatization is off."
            /\ v \in {"INVALID", "UNKNOWN"} =>
                    /\ tasks' = tasks
                    /\ example_event_handler(v) \notin
                            {"Climatization is on.", "Climatization is off."}
      ]_vars

\* The handler has classified a running state, and a state with no mode.
C2_Witness ==
    /\ nNoMode = 1
    /\ nMapped = 1
    /\ Len(tasks) = 1
    /\ tasks[1].mode = "ON"

\* The task is the only one that has written the flag so far.
OnlyWriter(i) ==
    /\ tasks[i].writes # << >>
    /\ \A j \in Tasks \ {i} : tasks[j].writes = << >>

\* C3 as stated: a reconciliation writes true only for mode RUNNING and
\* false only for mode IDLE, so that after a reconciliation that wrote,
\* smartCharging = true iff its mode was RUNNING.
C3_WritesTrueForRunning ==
    \A i \in Tasks :
        /\ \A k \in 1..Len(tasks[i].writes) : tasks[i].writes[k] = (tasks[i].mode = "ON")
        /\ (OnlyWriter(i) /\ ~external) => charger.smartCharging = (tasks[i].mode = "ON")

\* C3 amended: a reconciliation writes false only for mode RUNNING and true
\* only for mode IDLE; after a reconciliation that wrote (and no other
\* writer), smartCharging = true iff its mode was IDLE.
C3_WritesTrueForIdle ==
    \A i \in Tasks :
        /\ \A k \in 1..Len(tasks[i].writes) : tasks[i].writes[k] = (tasks[i].mode = "OFF")
        /\ (OnlyWriter(i) /\ ~external) => charger.smartCharging = (tasks[i].mode = "OFF")

\* A task for mode RUNNING has written, and the flag is now false.
C3_Witness ==
    \E i \in Tasks :
        /\ tasks[i].mode = "ON"
        /\ tasks[i].pc = "done"
        /\ OnlyWriter(i)
        /\ ~external
        /\ charger.smartCharging = FALSE

\* C4: a reconciliation that completes writes exactly once, false, when it
\* decided DISABLE_SMART_CHARGING, exactly once, true, when it decided
\* ENABLE_SMART_CHARGING, and not at all when it decided NO_OP; no
\* reconciliation writes more than once.
C4_WritesMatchDecision ==
    \A i \in Tasks :
        /\ Len(tasks[i].writes) <= 1
        /\ tasks[i].pc = "done" =>
            /\ tasks[i].decision = "DISABLE_SMART_CHARGING" => tasks[i].writes = <<FALSE>>
            /\ tasks[i].decision = "ENABLE_SMART_CHARGING" => tasks[i].writes = <<TRUE>>
            /\ tasks[i].decision = "NO_OP" => tasks[i].writes = << >>

\* One completed task has disabled (scenario A), another has enabled
\* (scenario B with a later snapshot).
C4_Witness ==
    /\ Len(tasks) = 2
    /\ tasks[1].pc = "done" /\ tasks[2].pc = "done"
    /\ tasks[1].state[1] = [smartCharging |-> TRUE, chargerOpMode |-> "AWAITING_START"]
    /\ tasks[1].writes = <<FALSE>>
    /\ tasks[2].writes = <<TRUE>>

\* Scenario C: (true, RUNNING, "CHARGING") completes without a write.
C4_WitnessNoOp ==
    \E i \in Tasks :
        /\ tasks[i].pc = "done"
        /\ tasks[i].mode = "ON"
        /\ tasks[i].state[1] = [smartCharging |-> TRUE, chargerOpMode |-> "CHARGING"]
        /\ tasks[i].writes = << >>

\* Exactly two reconciliations were dispatched and both ran to completion,
\* the second reading the charger's state only after the first had
\* finished, and nobody else changed the charger.
RanInARow ==
    /\ Len(tasks) = 2
    /\ tasks[1].pc = "done"
    /\ tasks[2].pc = "done"
    /\ tasks[2].seq
    /\ ~external

\* C5: from smartCharging = true and chargerOpMode = "AWAITING_START",
\* reconcile(RUNNING) run twice in a row decides DISABLE_SMART_CHARGING and
\* then NO_OP: the flag is written once, to false, and not toggled again.
C5_Idempotence ==
    ( /\ RanInARow
      /\ tasks[1].mode = "ON"
      /\ tasks[2].mode = "ON"
      /\ tasks[1].state[1] = [smartCharging |-> TRUE, chargerOpMode |-> "AWAITING_START"] )
    =>
    ( /\ tasks[1].decision = "DISABLE_SMART_CHARGING"
      /\ tasks[1].writes = <<FALSE>>
      /\ tasks[2].decision = "NO_OP"
      /\ tasks[2].writes = << >>
      /\ charger.smartCharging = FALSE )

\* Both runs of reconcile(RUNNING) are over, the first having started from
\* (true, "AWAITING_START").
C5_Witness ==
    /\ RanInARow
    /\ tasks[1].mode = "ON"
    /\ tasks[2].mode = "ON"
    /\ tasks[1].state[1] = [smartCharging |-> TRUE, chargerOpMode |-> "AWAITING_START"]
    /\ tasks[2].state[1].smartCharging = FALSE

\* C6: a climatization notification with no mode spawns no task, and so
\* no charger call (every charger call is made by a task): the number of
\* tasks ever spawned is the number of climatization notifications received
\* with value OFF, HEATING, COOLING or VENTILATION.
C6_OneTaskPerMappedNotification ==
    /\ Len(tasks) = nMapped
    /\ nMapped + nNoMode <= nReceived
    /\ \A i \in Tasks : tasks[i].mode \in Mode

\* A notification with no mode and one with a mode have been handled: one
\* task exists, and the only charger calls are that task's.
C6_Witness ==
    /\ nNoMode = 1
    /\ nMapped = 1
    /\ Len(tasks) = 1
    /\ tasks[1].pc = "done"

\* C7 as stated: no finished task leaves its session open.
C7_SessionClosed ==
    \A i \in Tasks : Finished(tasks[i]) => tasks[i].session = "closed"

\* C8 as stated: after a failed login or refresh the poll loop is still
\* running.
C8_ListenerSurvives ==
    failure \in {"login", "update"} => pc \in {"update", "sleep"}

\* The task ends with an exception in this step.
FailsNow(i) == tasks[i].pc # "failed" /\ tasks'[i].pc = "failed"

\* C9: a failure inside a reconciliation task ends that task only: the
\* listener stays where it is (suspended in its sleep, from which the next
\* refresh follows), the process does not end, the other tasks and the
\* charger are untouched, and a later climatization notification with a
\* mode still spawns a task.
C9_FailureIsolated ==
    [][ /\ \A i \in Tasks : FailsNow(i) =>
                /\ pc = "sleep" /\ pc' = "sleep"
                /\ failure' = "none"
                /\ observers' = observers
                /\ charger' = charger
                /\ Len(tasks') = Len(tasks)
                /\ \A j \in Tasks \ {i} : tasks'[j] = tasks[j]
        /\ ( /\ \E i \in Tasks : tasks[i].pc = "failed"
              /\ HandlerStep
              /\ IsClimatization(event[1])
              /\ event[1].value \in MappedStates )
            => /\ Len(tasks') = Len(tasks) + 1
               /\ tasks'[Len(tasks')].pc = "created"
      ]_vars

\* The first task has failed; the listener is refreshing again and the
\* second task has run to completion.
C9_Witness ==
    /\ Len(tasks) = 2
    /\ tasks[1].pc = "failed"
    /\ tasks[2].pc = "done"
    /\ pc = "update"
    /\ failure = "none"

\* The charger's state after one reconciliation for mode m that starts
\* from state c and runs alone, by the decision table of the specification.
SequentialResult(c, m) ==
    IF c.smartCharging /\ m = "ON" /\ c.chargerOpMode = "AWAITING_START"
        THEN [c EXCEPT !.smartCharging = FALSE]
    ELSE IF ~c.smartCharging /\ m = "OFF"
        THEN [c EXCEPT !.smartCharging = TRUE]
    ELSE c

\* Two reconciliations were dispatched, both completed, and nobody else
\* changed the charger.
BothDone ==
    /\ Len(tasks) = 2
    /\ tasks[1].pc = "done"
    /\ tasks[2].pc = "done"
    /\ ~external

\* C10: only an ordered execution gives the result of the dispatch order:
\* when the second task reads the state after the first has finished, the
\* final state is that of the two reconciliations run one after the
\* other.  Nothing enforces that order: C10_Race is reachable.
C10_OrderedGivesSequential ==
    (BothDone /\ tasks[2].seq) =>
        charger = SequentialResult(SequentialResult(tasks[1].state[1], tasks[1].mode),
                                   tasks[2].mode)

\* The race: both tasks read the same state, so the second read and
\* decided before the first task's write; the first task's write was then
\* applied, and the final flag differs from the flag of the two
\* reconciliations run in dispatch order.
C10_Race ==
    /\ BothDone
    /\ ~tasks[2].seq
    /\ tasks[1].state = tasks[2].state
    /\ tasks[1].writes # << >>
    /\ charger.smartCharging = tasks[1].writes[1]
    /\ charger.smartCharging #
         SequentialResult(SequentialResult(tasks[1].state[1], tasks[1].mode),
                          tasks[2].mode).smartCharging

\* The task's smart_charging(...) call takes effect in this step.
WritesNow(i) == Len(tasks'[i].writes) > Len(tasks[i].writes)

\* C11 as stated: under any interleaving of the tasks (and nobody else
\* changing the charger) every smart-charging write changes the charger's
\* flag: no task writes the value the flag holds at the moment of the write.
C11_EveryWriteChangesFlag ==
    [][\A i \in Tasks :
          (WritesNow(i) /\ ~external) => charger'.smartCharging # charger.smartCharging]_vars

\* C11 amended: every write differs from the flag of the writing task's
\* own snapshot: no task writes the value smartCharging had in the state
\* it read.
C11_WriteDiffersFromSnapshot ==
    \A i \in Tasks :
        \A k \in 1..Len(tasks[i].writes) :
            /\ HasRead(i)
            /\ tasks[i].writes[k] # tasks[i].state[1].smartCharging

\* Two tasks read the same state and both wrote false: the second write
\* found the flag already false.
C11_Witness ==
    /\ Len(tasks) = 2
    /\ ~external
    /\ tasks[1].state = tasks[2].state
    /\ tasks[1].writes = <<FALSE>>
    /\ tasks[2].writes = <<FALSE>>

\* C12: for a notification that classifies to a mode the handler creates
\* exactly one task carrying that mode and returns before the task has made
\* any charger call; the handler makes no charger call itself and leaves
\* the other tasks as they are.
C12_DispatchNonBlocking ==
    [][(HandlerStep /\ IsClimatization(event[1]) /\ event[1].value \in MappedStates) =>
        /\ Len(tasks') = Len(tasks) + 1
        /\ \A j \in Tasks : tasks'[j] = tasks[j]
        /\ LET t == tasks'[Len(tasks')]
           IN  /\ t.mode = (IF event[1].value = "OFF" THEN "OFF" ELSE "ON")
               /\ t.pc = "created"
               /\ t.calls = 0
               /\ t.session = "none"
        /\ charger' = charger
        /\ pc' = "update"
      ]_vars

\* update() has returned after the handler dispatched a task that has not
\* run yet, while an earlier task is still waiting for the charger.
C12_Witness ==
    /\ pc = "sleep"
    /\ Len(tasks) = 2
    /\ tasks[1].pc = "get_state"
    /\ tasks[2].pc = "created"
    /\ tasks[2].calls = 0

\* The first reconciliation's write failed and was dropped; the second,
\* for the opposite mode, read the state after that and completed, and
\* nobody else changed the charger.
FailedThenNext ==
    /\ Len(tasks) = 2
    /\ tasks[1].pc = "failed"
    /\ tasks[1].error = "smart_charging"
    /\ tasks[2].pc = "done"
    /\ tasks[2].seq
    /\ tasks[2].mode # tasks[1].mode
    /\ ~external

\* The charger's state after both reconciliations, had the first one's
\* write succeeded.
IfWriteHadSucceeded ==
    SequentialResult(SequentialResult(tasks[1].state[1], tasks[1].mode), tasks[2].mode)

\* C13 as stated: for every initial charger state the reconciliation of
\* the next transition leaves the flag at the value it would have had if
\* the failed write had succeeded.
C13_NextTransitionCorrects ==
    FailedThenNext => charger.smartCharging = IfWriteHadSucceeded.smartCharging

\* C13 amended: the same, when the failed write was a disable (first mode
\* RUNNING) or chargerOpMode is "AWAITING_START".
C13_CorrectsWhenAwaitingStart ==
    ( /\ FailedThenNext
      /\ \/ tasks[1].mode = "ON"
         \/ tasks[1].state[1].chargerOpMode = "AWAITING_START" )
    => charger.smartCharging = IfWriteHadSucceeded.smartCharging

\* A failed enable from (false, "AWAITING_START") was followed by a
\* completed reconciliation for RUNNING.
C13_Witness ==
    /\ FailedThenNext
    /\ tasks[1].mode = "OFF"
    /\ tasks[1].state[1] = [smartCharging |-> FALSE, chargerOpMode |-> "AWAITING_START"]
    /\ charger.smartCharging = FALSE

\* A failed disable was followed by a completed reconciliation for IDLE.
C13_WitnessDisable ==
    /\ FailedThenNext
    /\ tasks[1].mode = "ON"
    /\ charger.smartCharging = TRUE

\* The decision table of the specification.
TableDecision(c, m) ==
    IF c.smartCharging /\ m = "ON" /\ c.chargerOpMode = "AWAITING_START"
        THEN "DISABLE_SMART_CHARGING"
    ELSE IF ~c.smartCharging /\ m = "OFF"
        THEN "ENABLE_SMART_CHARGING"
    ELSE "NO_OP"

\* The task's get_state() call returns in this step.
ReadsNow(i) == ~HasRead(i) /\ tasks'[i].state # << >>

\* C14: a task's snapshot is the state the charger holds when the task's
\* own get_state() call returns, its decision is the table's decision for
\* that snapshot, and neither is replaced afterwards (one read per task,
\* nothing taken from another task or an earlier reconciliation).
C14_FreshState ==
    [][\A i \in Tasks :
          /\ ReadsNow(i) =>
                /\ tasks[i].pc = "get_state"
                /\ tasks'[i].state = <<charger>>
                /\ tasks'[i].decision = TableDecision(charger, tasks[i].mode)
          /\ HasRead(i) =>
                /\ tasks'[i].state = tasks[i].state
                /\ tasks'[i].decision = tasks[i].decision
      ]_vars

\* The second task read a state that differs from the first task's
\* snapshot: it saw the first task's write, not the earlier value.
C14_Witness ==
    /\ Len(tasks) = 2
    /\ ~external
    /\ HasRead(1) /\ HasRead(2)
    /\ tasks[1].writes # << >>
    /\ tasks[2].state[1].smartCharging = tasks[1].writes[1]
    /\ tasks[2].state # tasks[1].state

\* The remote calls a task has made when it waits at (or failed in) a step.
CallsAt(step) ==
    IF step = "created" THEN 0
    ELSE IF step \in {"get_sites", "IndexError"} THEN 1
    ELSE IF step = "get_state" THEN 2
    ELSE 3

\* C15: each task makes each remote call at most once, and a task that
\* failed in a step has stopped there: it has made the calls up to that
\* step only, it has read no state if the failure came before or in the
\* read, and it has written nothing.
C15_AbandonedAtFirstFailure ==
    \A i \in Tasks :
        LET t == tasks[i]
        IN  /\ t.calls <= 4
            /\ Len(t.writes) <= 1
            /\ (t.error # "none") <=> (t.pc = "failed")
            /\ t.pc \in {"created", "get_sites", "get_state", "smart_charging"} =>
                    t.calls = CallsAt(t.pc)
            /\ t.pc = "failed" =>
                    /\ t.calls = CallsAt(t.error)
                    /\ t.writes = << >>
                    /\ t.error \in {"get_sites", "IndexError", "get_state"} => t.state = << >>
                    /\ t.session = "open"

\* One task failed in its write, after its read; another failed in the
\* site lookup.
C15_Witness ==
    /\ Len(tasks) = 2
    /\ tasks[1].pc = "failed"
    /\ tasks[1].error = "smart_charging"
    /\ tasks[1].state # << >>
    /\ tasks[2].pc = "failed"
    /\ tasks[2].error = "IndexError"

\* C16: a notification of another attribute, or one whose flags do not
\* include VALUE_CHANGED, spawns no task whatever its value, and touches
\* neither the tasks nor the charger.
C16_OnlyClimatizationValueChanges ==
    [][(HandlerStep /\ ~IsClimatization(event[1])) =>
            /\ tasks' = tasks
            /\ charger' = charger
      ]_vars

\* Two notifications that are not value changes of climatisationState have
\* been handled, and there is no task.
C16_Witness ==
    /\ nReceived = 2
    /\ nMapped = 0
    /\ nNoMode = 0
    /\ event = << >>
    /\ tasks = << >>

\* C17: the observer is registered once, after login and before the first
\* refresh, and never again: before the registration nothing is delivered,
\* from the first refresh on exactly one registration is active, and a
\* change is handed to the handler once.
C17_RegisteredOnce ==
    /\ observers <= 1
    /\ Len(event) <= 1
    /\ pc \in {"login", "addObserver"} =>
            /\ observers = 0
            /\ nReceived = 0
            /\ event = << >>
    /\ pc \in {"update", "sleep"} => observers = 1
    /\ pc = "terminated" => observers = (IF failure = "login" THEN 0 ELSE 1)

\* A refresh after the first one (a task has already run to completion)
\* is delivering a change to the one registered handler.
C17_Witness ==
    /\ pc = "update"
    /\ observers = 1
    /\ Len(event) = 1
    /\ Len(tasks) = 1
    /\ tasks[1].pc = "done"

\* C19: for every mode and every initial charger state, reconcile(m) run
\* twice in a row decides NO_OP the second time and writes nothing: the
\* charger is left as the first run left it.
C19_SecondRunIsNoOp ==
    (RanInARow /\ tasks[1].mode = tasks[2].mode) =>
        /\ tasks[2].decision = "NO_OP"
        /\ tasks[2].writes = << >>
        /\ tasks[2].state[1] = SequentialResult(tasks[1].state[1], tasks[1].mode)
        /\ charger = tasks[2].state[1]

\* reconcile(IDLE) ran twice in a row; the first run enabled.
C19_Witness ==
    /\ RanInARow
    /\ tasks[1].mode = "OFF"
    /\ tasks[2].mode = "OFF"
    /\ tasks[1].writes = <<TRUE>>

\* A step of the program: the listener, the handler or a task moves.
ProgramStep == pc' # pc \/ event' # event \/ tasks' # tasks

\* C20: no step of the listener, the handler or a task changes
\* chargerOpMode; the charger changes only in the write of a task that
\* decided to write; the handler's step and every step of a task that
\* decided NO_OP leave the whole charger state unchanged.
C20_OnlySmartChargingIsWritten ==
    [][ /\ ProgramStep =>
            /\ charger'.chargerOpMode = charger.chargerOpMode
            /\ charger' # charger =>
                    \E i \in Tasks : WritesNow(i) /\ tasks[i].decision # "NO_OP"
        /\ HandlerStep => charger' = charger
        /\ \A i \in Tasks :
                (tasks[i].decision = "NO_OP" /\ tasks'[i] # tasks[i]) => charger' = charger
      ]_vars

\* An ignored notification has been handled and a reconciliation that
\* decided NO_OP has completed.
C20_Witness ==
    /\ nNoMode = 1
    /\ Len(tasks) = 1
    /\ tasks[1].pc = "done"
    /\ tasks[1].decision = "NO_OP"
    /\ tasks[1].state[1] = charger
    /\ ~external

\* C18: in normal operation the poll loop never ends: the listener is
\* inside update() infinitely often and asleep infinitely often, update()
\* is left only into the sleep and the sleep only into the next update(),
\* whatever the tasks do.
C18_PollLoopRunsForever ==
    /\ [](pc # "terminated")
    /\ []<>(pc = "update")
    /\ []<>(pc = "sleep")
    /\ [][(pc = "update" /\ pc' # pc) => pc' = "sleep"]_vars
    /\ [][(pc = "sleep" /\ pc' # pc) => pc' = "update"]_vars

\* A later refresh is running while one task has completed and another is
\* still waiting for the charger service.
C18_Witness ==
    /\ pc = "update"
    /\ Len(tasks) = 2
    /\ tasks[1].pc = "get_sites"
    /\ tasks[2].pc = "done"

====
